---- MODULE Spec2Model ----
(***************************************************************************)
(* Notification dispatch and inactivity scheduler of the Bluebird user     *)
(* backend: the subscribe endpoint, sendNotificationToUser,                *)
(* broadcastNotification (controllers/notificationController.js) and the   *)
(* daily inactivity check (scheduler.js), over the employees table.        *)
(***************************************************************************)
EXTENDS Integers, Sequences, FiniteSets, TLC

(***************************************************************************)
(* Bounds of the model.                                                    *)
(***************************************************************************)
MaxSubCalls == 2        \* subscribe requests in one behaviour
MaxRuns == 2            \* firings of the scheduler's timer in one behaviour
MaxDays == 2            \* days the clock covers after the first possible cutoff
MaxStamp == 3           \* latest day a stored timestamp names
MaxDispatches == 1      \* dispatch calls (sendNotificationToUser, broadcastNotification)
                        \* made by request handlers in one behaviour
MaxUpdates == 2         \* updateEmployee and updateEmployeeStars requests in one behaviour

(***************************************************************************)
(* The employees table and the values of the requests.                     *)
(***************************************************************************)
Employees == {"e1", "e2"}
UnknownId == "unknown_id"
NoEmpid == ""
EmpIds == Employees \cup {UnknownId}

Subs == { [endpoint |-> "a", keys |-> 1],
          [endpoint |-> "a", keys |-> 2],
          [endpoint |-> "b", keys |-> 1] }
NoSubscription == [endpoint |-> "", keys |-> 0]   \* req.body.subscription absent

Range(s) == { s[i] : i \in 1..Len(s) }
Endpoints(s) == { s[i].endpoint : i \in 1..Len(s) }
DistinctEndpoints(s) ==
    \A i, j \in 1..Len(s) : s[i].endpoint = s[j].endpoint => i = j

(* A stored push_subscriptions value: SQL null, a JSONB array, a JSONB      *)
(* non-array object, or text that is empty, does not parse, parses to an   *)
(* array or parses to another JSON value.                                  *)
Kinds == {"null", "array", "object", "emptyText", "badText", "arrayText", "otherText"}
NullValue == [kind |-> "null", items |-> <<>>]
ArrayValue(l) == [kind |-> "array", items |-> l]
Truthy(v) == v.kind \notin {"null", "emptyText"}
IsString(v) == v.kind \in {"emptyText", "badText", "arrayText", "otherText"}

VARIABLES
    employees,     \* the employees table: empid -> row
    subscribes,    \* the subscribe requests: 1..MaxSubCalls -> handler state
    updateLog,     \* the subscribe requests whose update reached the table, in order
    sends,         \* the sendNotificationToUser calls, in the order they were made
    broadcasts,    \* the broadcastNotification calls, in the order they were made
    runs,          \* the runs of the scheduler's callback, in the order they fired
    now,           \* the clock, in days since the epoch
    requests       \* the login, password, project and profile requests, in order

vars == <<employees, subscribes, updateLog, sends, broadcasts, runs, now, requests>>

SubCalls == 1..MaxSubCalls

(***************************************************************************)
(* subscribe (POST /api/notifications/subscribe)                           *)
(***************************************************************************)
IdleSubscribe ==
    [pc |-> "idle", empid |-> NoEmpid, subscription |-> NoSubscription,
     subscriptions |-> <<>>, status |-> 0,
     prior |-> {}, seenUpdates |-> 0, quiet |-> FALSE]

(* Bookkeeping of a request, for stating properties: prior is the set of   *)
(* requests answered before it arrived, seenUpdates the number of updates  *)
(* applied when its select returned, quiet whether no other request for    *)
(* the employee was between its read and its write when it was answered.   *)
Answered == { c \in DOMAIN subscribes : subscribes[c].pc = "done" }

(* Lines 43-55: the list the handler works on.  isArray is FALSE when the  *)
(* text parsed to a value that is no array: the handler then holds that    *)
(* value and `subscriptions.some` throws.                                  *)
ReadNothing(v) == [isArray |-> TRUE, items |-> <<>>]
ReadSubscriptions(v) ==
    IF Truthy(v)
    THEN IF IsString(v)
         THEN CASE v.kind = "arrayText" -> [isArray |-> TRUE, items |-> v.items]
                [] v.kind = "otherText" -> [isArray |-> FALSE, items |-> <<>>]
                [] OTHER -> [isArray |-> TRUE, items |-> <<>>]
         ELSE IF v.kind = "array"
              THEN [isArray |-> TRUE, items |-> v.items]
              ELSE [isArray |-> TRUE, items |-> <<>>]
    ELSE [isArray |-> TRUE, items |-> <<>>]

(* Line 58: subscriptions.some(s => s.endpoint === subscription.endpoint)  *)
AlwaysAbsent(list, subscription) == FALSE
Exists(list, subscription) ==
    \E i \in 1..Len(list) : list[i].endpoint = subscription.endpoint

(* No other request for the same employee is between its read and its write. *)
NoneUpdating(c, e) ==
    \A o \in SubCalls \ {c} :
        ~(subscribes[o].pc = "awaitUpdate" /\ subscribes[o].empid = e)

(* Lines 26-39: the request arrives; 400 when a field is missing,           *)
(* otherwise the select is issued.                                         *)
Subscribe(c, empid, subscription) ==
    /\ subscribes[c].pc = "idle"
    /\ \A o \in SubCalls : o < c => subscribes[o].pc # "idle"
    /\ IF subscription = NoSubscription \/ empid = NoEmpid
       THEN subscribes' = [subscribes EXCEPT ![c] =
                [@ EXCEPT !.pc = "done", !.empid = empid, !.prior = Answered,
                          !.subscription = subscription, !.status = 400]]
       ELSE subscribes' = [subscribes EXCEPT ![c] =
                [@ EXCEPT !.pc = "awaitFetch", !.empid = empid, !.prior = Answered,
                          !.subscription = subscription]]
    /\ UNCHANGED <<employees, updateLog, sends, broadcasts, runs, now, requests>>

(* Lines 35-41: .single() reports an error when no row has the empid, and  *)
(* the handler throws it.  The first definition is a select that reports   *)
(* no error and returns no row.                                            *)
NoFetchError(empid) == FALSE
FetchError(empid) == empid \notin Employees
FetchedValue(empid) ==
    IF empid \in Employees THEN employees[empid].push_subscriptions ELSE NullValue

(* Lines 35-61 and 71-76: the select returns. *)
SubscribeFetched(c) ==
    LET r == subscribes[c] IN
    /\ r.pc = "awaitFetch"
    /\ IF FetchError(r.empid)
       THEN subscribes' = [subscribes EXCEPT ![c] =
                [@ EXCEPT !.pc = "done", !.status = 500]]
       ELSE LET read == ReadSubscriptions(FetchedValue(r.empid)) IN
            IF ~read.isArray
            THEN subscribes' = [subscribes EXCEPT ![c] =
                     [@ EXCEPT !.pc = "done", !.status = 500,
                               !.seenUpdates = Len(updateLog)]]
            ELSE IF Exists(read.items, r.subscription)
            THEN subscribes' = [subscribes EXCEPT ![c] =
                     [@ EXCEPT !.pc = "done", !.status = 201,
                               !.subscriptions = read.items,
                               !.seenUpdates = Len(updateLog),
                               !.quiet = NoneUpdating(c, r.empid)]]
            ELSE subscribes' = [subscribes EXCEPT ![c] =
                     [@ EXCEPT !.pc = "awaitUpdate",
                               !.subscriptions = Append(read.items, r.subscription),
                               !.seenUpdates = Len(updateLog)]]
    /\ UNCHANGED <<employees, updateLog, sends, broadcasts, runs, now, requests>>

(* Lines 63-71: the update reaches the table and the handler answers 201.  *)
MergedUpdate(stored, r) ==
    IF stored.kind = "array" /\ ~Exists(stored.items, r.subscription)
    THEN ArrayValue(Append(stored.items, r.subscription))
    ELSE IF stored.kind = "array" THEN stored ELSE ArrayValue(r.subscriptions)
UpdatedValue(stored, r) == ArrayValue(r.subscriptions)

SubscribeUpdated(c) ==
    LET r == subscribes[c] IN
    /\ r.pc = "awaitUpdate"
    /\ employees' = IF r.empid \in Employees
                    THEN [employees EXCEPT ![r.empid].push_subscriptions =
                              UpdatedValue(@, r)]
                    ELSE employees                 \* the update matches no row
    /\ updateLog' = Append(updateLog, c)
    /\ subscribes' = [subscribes EXCEPT ![c] =
           [@ EXCEPT !.pc = "done", !.status = 201,
                     !.quiet = NoneUpdating(c, r.empid)]]
    /\ UNCHANGED <<sends, broadcasts, runs, now, requests>>

(***************************************************************************)
(* Notification payloads                                                   *)
(***************************************************************************)
Undefined == "undefined"                 \* a field the caller left out
MainLogo == "/Logo/MainLogo.png"
TakingOff == "/Logo/taking-off.png"
Falsy(x) == x \in {Undefined, ""}

LoginPayload ==
    [title |-> "New Login Detected", url |-> "/", icon |-> Undefined, image |-> Undefined]

(* Lines 85-86 and 133-134. *)
NoDefaults(payload) == payload
ApplyDefaults(payload) ==
    [payload EXCEPT !.icon = IF Falsy(@) THEN MainLogo ELSE @,
                    !.image = IF Falsy(@) THEN MainLogo ELSE @]

(* JSON.stringify(payload): the fields that are defined, as key/value pairs. *)
Stringify(payload) ==
    { <<k, payload[k]>> : k \in { f \in DOMAIN payload : payload[f] # Undefined } }

(***************************************************************************)
(* sendNotificationToUser                                                  *)
(***************************************************************************)
Outcomes == {"delivered", "expired", "transient"}   \* resolved, 404/410, other error

(* The subscriptions a send to which has been rejected with 404 or 410 so  *)
(* far, with their employees.                                              *)
ExpiredSoFar ==
    UNION { { [empid |-> sends[d].empid, subscription |-> sends[d].pushed[i].subscription] :
                i \in { j \in 1..Len(sends[d].pushed) :
                          sends[d].pushed[j].outcome = "expired" } } :
            d \in 1..Len(sends) }
    \cup
    UNION { { [empid |-> broadcasts[b].pushed[i].empid,
               subscription |-> broadcasts[b].pushed[i].subscription] :
                i \in { j \in 1..Len(broadcasts[b].pushed) :
                          broadcasts[b].pushed[j].outcome = "expired" } } :
            b \in 1..Len(broadcasts) }

(* Lines 82-93: the synchronous part of a call, up to the select.  `by` is  *)
(* 0 for a request handler and the run's number for the scheduler; `after` *)
(* is the set of subscribe requests answered 201 before the call and       *)
(* `expired` the subscriptions of the employee found expired before it.    *)
NewSend(by, empid, payload) ==
    [by |-> by, empid |-> empid, given |-> payload, payload |-> ApplyDefaults(payload),
     pc |-> "awaitFetch", subscriptions |-> <<>>, pushed |-> <<>>,
     raised |-> FALSE,
     after |-> { c \in SubCalls : subscribes[c].pc = "done" /\ subscribes[c].status = 201 },
     expired |-> { x.subscription : x \in { y \in ExpiredSoFar : y.empid = empid } }]

(* Lines 95-104: the list fanned out to; empty when the call returns early. *)
FirstOnly(empid) ==
    LET v == employees[empid].push_subscriptions IN
    IF v.kind = "array" /\ Len(v.items) > 0 THEN <<v.items[1]>> ELSE <<>>
SendList(empid) ==
    IF empid \notin Employees THEN <<>>
    ELSE LET v == employees[empid].push_subscriptions IN
         IF ~Truthy(v) THEN <<>>
         ELSE IF v.kind \in {"array", "arrayText"} THEN v.items ELSE <<>>

(* Lines 107-117: one webpush.sendNotification call per element. *)
Fanout(list, payload) ==
    [i \in 1..Len(list) |->
        [subscription |-> list[i], body |-> Stringify(payload), outcome |-> "pending"]]

(* Lines 110-112 and 167: the catch handler of a send logs the rejection;  *)
(* for 404 and 410 it logs that the subscription expired and leaves the    *)
(* table alone.  The first definition is a handler that removes the        *)
(* subscription from the employee's stored list.                           *)
RemoveExpired(empid, subscription, o) ==
    IF o = "expired" /\ empid \in Employees
    THEN [employees EXCEPT ![empid].push_subscriptions.items =
              SelectSeq(@, LAMBDA x : x # subscription)]
    ELSE employees
StoreAfterSettle(empid, subscription, o) == employees

(* Lines 109-116: a send settles; a rejection is logged by the catch       *)
(* handler and nothing else happens.                                       *)
RetryRejected(r, i, o) ==
    IF o = "delivered"
    THEN [r EXCEPT !.pushed[i].outcome = o]
    ELSE [r EXCEPT !.pushed = Append([@ EXCEPT ![i].outcome = o],
                                     [@[i] EXCEPT !.outcome = "pending"])]
Settled(r, i, o) == [r EXCEPT !.pushed[i].outcome = o]

SendIds == 1..Len(sends)
BroadcastIds == 1..Len(broadcasts)
HandlerDispatches ==
    Cardinality({ d \in SendIds : sends[d].by = 0 }) + Len(broadcasts)

(* A request handler (loginUser, updatePassword) calls sendNotificationToUser. *)
DirectSend(empid, payload) ==
    /\ HandlerDispatches < MaxDispatches
    /\ sends' = Append(sends, NewSend(0, empid, payload))
    /\ UNCHANGED <<employees, subscribes, updateLog, broadcasts, runs, now, requests>>

(* Lines 89-117: the select returns; early return or the fan-out. *)
SendFetched(d) ==
    LET r == sends[d]
        list == SendList(r.empid) IN
    /\ r.pc = "awaitFetch"
    /\ sends' = [sends EXCEPT ![d] =
           IF Len(list) = 0
           THEN [r EXCEPT !.pc = "done"]
           ELSE [r EXCEPT !.pc = "awaitAll", !.subscriptions = list,
                          !.pushed = Fanout(list, r.payload)]]
    /\ UNCHANGED <<employees, subscribes, updateLog, broadcasts, runs, now, requests>>

(* Line 95: the select reports an error; the call returns at once.  The    *)
(* first definition is the call as it would be if it threw the error.      *)
RaiseLookupError(r) == [r EXCEPT !.pc = "failed", !.raised = TRUE]
AfterLookupError(r) == [r EXCEPT !.pc = "failed"]

SendLookupFailed(d) ==
    /\ sends[d].pc = "awaitFetch"
    /\ sends' = [sends EXCEPT ![d] = AfterLookupError(@)]
    /\ UNCHANGED <<employees, subscribes, updateLog, broadcasts, runs, now, requests>>

SendSettled(d, i, o) ==
    /\ sends[d].pc = "awaitAll"
    /\ i \in 1..Len(sends[d].pushed)
    /\ sends[d].pushed[i].outcome = "pending"
    /\ sends' = [sends EXCEPT ![d] = Settled(@, i, o)]
    /\ employees' = StoreAfterSettle(sends[d].empid, sends[d].pushed[i].subscription, o)
    /\ UNCHANGED <<subscribes, updateLog, broadcasts, runs, now, requests>>

(* Lines 119-120: Promise.all resolves once every send has settled. *)
SendCompleted(d) ==
    /\ sends[d].pc = "awaitAll"
    /\ \A i \in 1..Len(sends[d].pushed) : sends[d].pushed[i].outcome # "pending"
    /\ sends' = [sends EXCEPT ![d].pc = "done"]
    /\ UNCHANGED <<employees, subscribes, updateLog, broadcasts, runs, now, requests>>

(***************************************************************************)
(* broadcastNotification                                                   *)
(***************************************************************************)
EmployeeOrder == <<"e1", "e2">>          \* the order the table returns rows in

(* Lines 145-152: the rows the query returns.  Any truthy roleType adds    *)
(* .neq('role_type', 'Manager'); a falsy one adds no filter.               *)
AllRows(roleType) == EmployeeOrder
RowsNotOfRole(roleType) ==
    SelectSeq(EmployeeOrder, LAMBDA e : employees[e].role_type # roleType)
QueryRows(roleType) ==
    IF ~Falsy(roleType)
    THEN SelectSeq(EmployeeOrder, LAMBDA e : employees[e].role_type # "Manager")
    ELSE EmployeeOrder

(* Lines 158-164: the subscriptions of one fetched row that are sent to. *)
RowSubs(v) ==
    IF ~Truthy(v) THEN <<>>
    ELSE IF v.kind \in {"array", "arrayText"} THEN v.items ELSE <<>>

(* The fan-out as it would be if a row with an unusable stored value       *)
(* aborted the map: no send for that row or for any row after it.          *)
RECURSIVE FanoutUntilMalformed(_, _)
FanoutUntilMalformed(rows, payload) ==
    IF rows = <<>> THEN <<>>
    ELSE LET v == employees[Head(rows)].push_subscriptions
             subs == RowSubs(v) IN
         IF Truthy(v) /\ v.kind \notin {"array", "arrayText"} THEN <<>>
         ELSE [i \in 1..Len(subs) |->
                  [empid |-> Head(rows), subscription |-> subs[i],
                   body |-> Stringify(payload), outcome |-> "pending"]]
              \o FanoutUntilMalformed(Tail(rows), payload)

(* Lines 156-169: one webpush.sendNotification call per subscription of    *)
(* every fetched row, all issued before anything is awaited.               *)
RECURSIVE BroadcastFanout(_, _)
BroadcastFanout(rows, payload) ==
    IF rows = <<>> THEN <<>>
    ELSE LET subs == RowSubs(employees[Head(rows)].push_subscriptions) IN
         [i \in 1..Len(subs) |->
             [empid |-> Head(rows), subscription |-> subs[i],
              body |-> Stringify(payload), outcome |-> "pending"]]
         \o BroadcastFanout(Tail(rows), payload)

(* Lines 130-152: a request handler (createProject) calls                  *)
(* broadcastNotification; the defaults are applied and the query is issued. *)
NewBroadcast(roleType, payload) ==
    [roleType |-> roleType, given |-> payload, payload |-> ApplyDefaults(payload),
     pc |-> "awaitFetch", rows |-> <<>>, pushed |-> <<>>, raised |-> FALSE,
     expired |-> ExpiredSoFar]

Broadcast(roleType, payload) ==
    /\ HandlerDispatches < MaxDispatches
    /\ broadcasts' = Append(broadcasts, NewBroadcast(roleType, payload))
    /\ UNCHANGED <<employees, subscribes, updateLog, sends, runs, now, requests>>

(* Lines 152-169: the query returns and the fan-out is issued. *)
BroadcastFetched(b) ==
    LET r == broadcasts[b]
        rows == QueryRows(r.roleType) IN
    /\ r.pc = "awaitFetch"
    /\ broadcasts' = [broadcasts EXCEPT ![b] =
           [r EXCEPT !.pc = "awaitAll", !.rows = rows,
                     !.pushed = BroadcastFanout(rows, r.payload)]]
    /\ UNCHANGED <<employees, subscribes, updateLog, sends, runs, now, requests>>

(* Lines 154 and 174-176: the query fails; the error is thrown to the      *)
(* function's own catch block, which logs it.                              *)
BroadcastFetchFailed(b) ==
    /\ broadcasts[b].pc = "awaitFetch"
    /\ broadcasts' = [broadcasts EXCEPT ![b].pc = "failed"]
    /\ UNCHANGED <<employees, subscribes, updateLog, sends, runs, now, requests>>

(* Line 167: a send settles; a rejection is logged by the catch handler. *)
BroadcastSettled(b, i, o) ==
    /\ broadcasts[b].pc = "awaitAll"
    /\ i \in 1..Len(broadcasts[b].pushed)
    /\ broadcasts[b].pushed[i].outcome = "pending"
    /\ broadcasts' = [broadcasts EXCEPT ![b].pushed[i].outcome = o]
    /\ employees' = StoreAfterSettle(broadcasts[b].pushed[i].empid,
                                     broadcasts[b].pushed[i].subscription, o)
    /\ UNCHANGED <<subscribes, updateLog, sends, runs, now, requests>>

(* Lines 171-172: Promise.all resolves once every send has settled. *)
BroadcastCompleted(b) ==
    /\ broadcasts[b].pc = "awaitAll"
    /\ \A i \in 1..Len(broadcasts[b].pushed) : broadcasts[b].pushed[i].outcome # "pending"
    /\ broadcasts' = [broadcasts EXCEPT ![b].pc = "done"]
    /\ UNCHANGED <<employees, subscribes, updateLog, sends, runs, now, requests>>

(***************************************************************************)
(* The inactivity scheduler (scheduler.js)                                 *)
(***************************************************************************)
InactivityDays == 15
NullTime == -1                           \* a last_login or updated_at that is null
ReminderPayload ==
    [title |-> "Update Your Details", url |-> "/details",
     icon |-> TakingOff, image |-> MainLogo]
RunIds == 1..Len(runs)

(* Lines 34-43: the test made on one fetched row. *)
EitherStale(row, cutoff) ==
    LET lastLogin == IF row.last_login = NullTime THEN 0 ELSE row.last_login
        lastUpdate == IF row.updated_at = NullTime THEN 0 ELSE row.updated_at
    IN lastLogin < cutoff \/ lastUpdate < cutoff
NotAfterCutoff(row, cutoff) ==
    LET lastLogin == IF row.last_login = NullTime THEN 0 ELSE row.last_login
        lastUpdate == IF row.updated_at = NullTime THEN 0 ELSE row.updated_at
    IN lastLogin <= cutoff /\ lastUpdate <= cutoff
IsInactive(row, cutoff) ==
    LET lastLogin == IF row.last_login = NullTime THEN 0 ELSE row.last_login
        lastUpdate == IF row.updated_at = NullTime THEN 0 ELSE row.updated_at
    IN lastLogin < cutoff /\ lastUpdate < cutoff

(* Lines 25-28: select empid, name, last_login, updated_at, role_type      *)
(* where role_type is not 'Manager'.                                       *)
FetchedRow(e) ==
    [empid |-> e, last_login |-> employees[e].last_login,
     updated_at |-> employees[e].updated_at, role_type |-> employees[e].role_type]
EveryRow ==
    [i \in 1..Len(EmployeeOrder) |-> FetchedRow(EmployeeOrder[i])]
SchedulerRows ==
    LET ids == SelectSeq(EmployeeOrder, LAMBDA e : employees[e].role_type # "Manager")
    IN [i \in 1..Len(ids) |-> FetchedRow(ids[i])]

(* Lines 32-54: the loop; sendNotificationToUser is called, and not        *)
(* awaited, for every row that passes the test.                            *)
RECURSIVE Reminders(_, _, _)
Reminders(rows, cutoff, r) ==
    IF rows = <<>> THEN <<>>
    ELSE (IF IsInactive(Head(rows), cutoff)
          THEN <<NewSend(r, Head(rows).empid, ReminderPayload)>>
          ELSE <<>>)
         \o Reminders(Tail(rows), cutoff, r)

(* Line 9: node-cron calls the callback at every firing; the callback      *)
(* keeps no flag of a run in progress.  The first definition is a callback *)
(* that returns at once while an earlier run awaits its select.            *)
StartWhenIdle == \A r \in RunIds : runs[r].pc # "awaitFetch"
MayStart == TRUE

(* Lines 9-28: the timer fires; the cutoff is computed and the select is   *)
(* issued.  `fetches` counts the selects the run has issued.               *)
Fire ==
    /\ Len(runs) < MaxRuns
    /\ MayStart
    /\ runs' = Append(runs, [pc |-> "awaitFetch", cutoff |-> now - InactivityDays,
                             rows |-> <<>>, count |-> 0, logged |-> FALSE,
                             fetches |-> 1, raised |-> FALSE])
    /\ UNCHANGED <<employees, subscribes, updateLog, sends, broadcasts, now, requests>>

(* Lines 30-55: the select returns the rows; the loop runs and the count   *)
(* is logged.                                                              *)
SchedulerFetched(r) ==
    LET rows == SchedulerRows
        calls == Reminders(rows, runs[r].cutoff, r) IN
    /\ runs[r].pc = "awaitFetch"
    /\ sends' = sends \o calls
    /\ runs' = [runs EXCEPT ![r] =
           [@ EXCEPT !.pc = "done", !.rows = rows, !.count = Len(calls),
                     !.logged = TRUE]]
    /\ UNCHANGED <<employees, subscribes, updateLog, broadcasts, now, requests>>

(* Lines 30 and 57-59: the select fails; the error is thrown to the catch *)
(* block of the callback, which logs it.  The first definition is a run    *)
(* that issues the select again.                                           *)
RefetchAfterError(run) == [run EXCEPT !.fetches = @ + 1]
AfterFetchError(run) == [run EXCEPT !.pc = "failed"]

SchedulerFetchFailed(r) ==
    /\ runs[r].pc = "awaitFetch"
    /\ runs' = [runs EXCEPT ![r] = AfterFetchError(@)]
    /\ UNCHANGED <<employees, subscribes, updateLog, sends, broadcasts, now, requests>>

(* A day passes. *)
Tick ==
    /\ now < InactivityDays + MaxDays
    /\ now' = now + 1
    /\ UNCHANGED <<employees, subscribes, updateLog, sends, broadcasts, runs, requests>>

(***************************************************************************)
(* The request handlers that dispatch a notification: loginUser and        *)
(* updatePassword (generate_keys.js) and createProject (unnamed/part_002). *)
(***************************************************************************)
PasswordPayload ==
    [title |-> "Password Changed", url |-> "/profile", icon |-> Undefined, image |-> Undefined]
ActivityPayload ==
    [title |-> "New Activity Available", url |-> "/inline-activities",
     icon |-> Undefined, image |-> Undefined]

RequestIds == 1..Len(requests)
DispatchingKinds == {"loginUser", "updatePassword", "createProject"}
Dispatching == { q \in RequestIds : requests[q].kind \in DispatchingKinds }

(* The fields of the body of a profile request that decide its path. *)
NoBody == [stars |-> Undefined, availability |-> Undefined]

(* A request: `empid` is the employee the email or empid of the body       *)
(* names, `ok` whether the password of the body is the stored one,         *)
(* `fault` the database call of the handler that failed, `dispatch` the    *)
(* number of the call the handler made (0 before it), `body` the fields of *)
(* a profile request, `at` the day the request arrived.                    *)
NewRequest(kind, empid, ok) ==
    [kind |-> kind, empid |-> empid, ok |-> ok, pc |-> "awaitFetch", status |-> 0,
     fault |-> "none", dispatch |-> 0, body |-> NoBody, at |-> now]

Respond(r, status) == [r EXCEPT !.pc = "done", !.status = status]

(* The response of a handler that ran to its end: res.json (200) in        *)
(* loginUser and updatePassword, res.status(201) in createProject.  The    *)
(* first definition is a handler that answers 500 when the dispatch it     *)
(* made has failed.                                                        *)
StatusAfterDispatch(r) ==
    IF r.kind = "createProject" THEN 201
    ELSE IF /\ r.dispatch # 0
            /\ \/ sends[r.dispatch].pc = "failed"
               \/ \E i \in 1..Len(sends[r.dispatch].pushed) :
                      sends[r.dispatch].pushed[i].outcome \in {"expired", "transient"}
         THEN 500 ELSE 200
HandlerStatus(r) == IF r.kind = "createProject" THEN 201 ELSE 200

(* generate_keys.js 448-460: loginUser; 400 without email or password,     *)
(* else the select by email is issued.                                     *)
LoginUser(empid, ok) ==
    /\ Cardinality(Dispatching) < MaxDispatches
    /\ requests' = Append(requests,
           IF empid = NoEmpid THEN Respond(NewRequest("loginUser", empid, ok), 400)
           ELSE NewRequest("loginUser", empid, ok))
    /\ UNCHANGED <<employees, subscribes, updateLog, sends, broadcasts, runs, now>>

(* generate_keys.js 462-489: the select returns; 401 for no such user or a *)
(* wrong password, else sendNotificationToUser is called, not awaited, and *)
(* the update of last_login is issued.                                     *)
LoginFetched(q) ==
    LET r == requests[q] IN
    /\ r.kind = "loginUser" /\ r.pc = "awaitFetch"
    /\ IF r.empid \notin Employees \/ ~r.ok
       THEN /\ requests' = [requests EXCEPT ![q] = Respond(r, 401)]
            /\ UNCHANGED sends
       ELSE /\ sends' = Append(sends, NewSend(0, r.empid, LoginPayload))
            /\ requests' = [requests EXCEPT ![q] =
                   [r EXCEPT !.pc = "awaitUpdate", !.dispatch = Len(sends) + 1]]
    /\ UNCHANGED <<employees, subscribes, updateLog, broadcasts, runs, now>>

(* generate_keys.js 462 and 493-496: the select fails; 500. *)
LoginFetchFailed(q) ==
    /\ requests[q].kind = "loginUser" /\ requests[q].pc = "awaitFetch"
    /\ requests' = [requests EXCEPT ![q] = Respond([@ EXCEPT !.fault = "fetch"], 500)]
    /\ UNCHANGED <<employees, subscribes, updateLog, sends, broadcasts, runs, now>>

(* generate_keys.js 489-491: the update of last_login returns and the      *)
(* response is sent.                                                       *)
LoginUpdated(q) ==
    LET r == requests[q] IN
    /\ r.kind = "loginUser" /\ r.pc = "awaitUpdate"
    /\ employees' = [employees EXCEPT ![r.empid].last_login = now]
    /\ requests' = [requests EXCEPT ![q] = Respond(r, HandlerStatus(r))]
    /\ UNCHANGED <<subscribes, updateLog, sends, broadcasts, runs, now>>

(* generate_keys.js 553-566: updatePassword; 400 when a field is missing,  *)
(* else the select by empid is issued.                                     *)
UpdatePassword(empid, ok) ==
    /\ Cardinality(Dispatching) < MaxDispatches
    /\ requests' = Append(requests,
           IF empid = NoEmpid THEN Respond(NewRequest("updatePassword", empid, ok), 400)
           ELSE NewRequest("updatePassword", empid, ok))
    /\ UNCHANGED <<employees, subscribes, updateLog, sends, broadcasts, runs, now>>

(* generate_keys.js 568-584: the select returns; 404 for no such user, 401 *)
(* for a wrong current password, else the update of the password is        *)
(* issued.                                                                 *)
PasswordFetched(q) ==
    LET r == requests[q] IN
    /\ r.kind = "updatePassword" /\ r.pc = "awaitFetch"
    /\ requests' = [requests EXCEPT ![q] =
           IF r.empid \notin Employees THEN Respond(r, 404)
           ELSE IF ~r.ok THEN Respond(r, 401)
           ELSE [r EXCEPT !.pc = "awaitUpdate"]]
    /\ UNCHANGED <<employees, subscribes, updateLog, sends, broadcasts, runs, now>>

(* generate_keys.js 568-571: the select fails; 404. *)
PasswordFetchFailed(q) ==
    /\ requests[q].kind = "updatePassword" /\ requests[q].pc = "awaitFetch"
    /\ requests' = [requests EXCEPT ![q] = Respond([@ EXCEPT !.fault = "fetch"], 404)]
    /\ UNCHANGED <<employees, subscribes, updateLog, sends, broadcasts, runs, now>>

(* generate_keys.js 586-594: the update returns; sendNotificationToUser is *)
(* called, not awaited, and the response is sent.                          *)
PasswordUpdated(q) ==
    LET r == requests[q] IN
    /\ r.kind = "updatePassword" /\ r.pc = "awaitUpdate"
    /\ sends' = Append(sends, NewSend(0, r.empid, PasswordPayload))
    /\ requests' = [requests EXCEPT ![q] =
           Respond([r EXCEPT !.dispatch = Len(sends) + 1], HandlerStatus(r))]
    /\ UNCHANGED <<employees, subscribes, updateLog, broadcasts, runs, now>>

(* generate_keys.js 586 and 596-598: the update fails; 500, no call. *)
PasswordUpdateFailed(q) ==
    /\ requests[q].kind = "updatePassword" /\ requests[q].pc = "awaitUpdate"
    /\ requests' = [requests EXCEPT ![q] = Respond([@ EXCEPT !.fault = "update"], 500)]
    /\ UNCHANGED <<employees, subscribes, updateLog, sends, broadcasts, runs, now>>

(* unnamed/part_002 43-86: createProject; the insert is issued. *)
CreateProject ==
    /\ Cardinality(Dispatching) < MaxDispatches
    /\ requests' = Append(requests,
           [NewRequest("createProject", NoEmpid, TRUE) EXCEPT !.pc = "awaitInsert"])
    /\ UNCHANGED <<employees, subscribes, updateLog, sends, broadcasts, runs, now>>

(* unnamed/part_002 88-99: the insert returns; the response is sent and    *)
(* then broadcastNotification("IC", ...) is called, not awaited.           *)
ProjectInserted(q) ==
    LET r == requests[q] IN
    /\ r.kind = "createProject" /\ r.pc = "awaitInsert"
    /\ broadcasts' = Append(broadcasts, NewBroadcast("IC", ActivityPayload))
    /\ requests' = [requests EXCEPT ![q] =
           Respond([r EXCEPT !.dispatch = Len(broadcasts) + 1], HandlerStatus(r))]
    /\ UNCHANGED <<employees, subscribes, updateLog, sends, runs, now>>

(* unnamed/part_002 88 and 100-103: the insert fails; 500, no broadcast. *)
ProjectInsertFailed(q) ==
    /\ requests[q].kind = "createProject" /\ requests[q].pc = "awaitInsert"
    /\ requests' = [requests EXCEPT ![q] = Respond([@ EXCEPT !.fault = "insert"], 500)]
    /\ UNCHANGED <<employees, subscribes, updateLog, sends, broadcasts, runs, now>>

(***************************************************************************)
(* The profile handlers: updateEmployee and updateEmployeeStars            *)
(* (generate_keys.js).                                                     *)
(***************************************************************************)
ProfileKinds == {"updateEmployee", "updateEmployeeStars"}
Profiling == { q \in RequestIds : requests[q].kind \in ProfileKinds }

(* The bodies: stars left out or given; availability left out, given, or   *)
(* "Partially Available" without the hours and dates it requires.          *)
ProfileBodies ==
    [stars : {Undefined, "4"},
     availability : {Undefined, "Occupied", "Partially Available"}]

(* Lines 236-241: updated_at is the time of the request moved forward by   *)
(* five and a half hours, which falls on the same day or on the next.      *)
IstShift == {0, 1}

(* generate_keys.js 122-132: updateEmployee; the select by empid is issued. *)
UpdateEmployee(empid, body) ==
    /\ Cardinality(Profiling) < MaxUpdates
    /\ requests' = Append(requests,
           [NewRequest("updateEmployee", empid, TRUE) EXCEPT !.body = body])
    /\ UNCHANGED <<employees, subscribes, updateLog, sends, broadcasts, runs, now>>

(* generate_keys.js 134-244: the select returns.  404 for no such          *)
(* employee; a body with stars issues the update of stars alone; a         *)
(* partial availability without hours and dates is answered 400; else the  *)
(* update of the fields with updated_at is issued.                         *)
EmployeeFetched(q) ==
    LET r == requests[q] IN
    /\ r.kind = "updateEmployee" /\ r.pc = "awaitFetch"
    /\ requests' = [requests EXCEPT ![q] =
           IF r.empid \notin Employees THEN Respond(r, 404)
           ELSE IF r.body.stars # Undefined THEN [r EXCEPT !.pc = "awaitStars"]
           ELSE IF r.body.availability = "Partially Available" THEN Respond(r, 400)
           ELSE [r EXCEPT !.pc = "awaitUpdate"]]
    /\ UNCHANGED <<employees, subscribes, updateLog, sends, broadcasts, runs, now>>

(* generate_keys.js 134 and 260-263: the select fails; 500. *)
EmployeeFetchFailed(q) ==
    /\ requests[q].kind = "updateEmployee" /\ requests[q].pc = "awaitFetch"
    /\ requests' = [requests EXCEPT ![q] = Respond([@ EXCEPT !.fault = "fetch"], 500)]
    /\ UNCHANGED <<employees, subscribes, updateLog, sends, broadcasts, runs, now>>

(* generate_keys.js 142-156: update({ stars }) returns; "Star updated      *)
(* directly" is answered and nothing else of the body is written.          *)
StarsUpdatedDirectly(q) ==
    LET r == requests[q] IN
    /\ r.kind = "updateEmployee" /\ r.pc = "awaitStars"
    /\ employees' = [employees EXCEPT ![r.empid].stars = r.body.stars]
    /\ requests' = [requests EXCEPT ![q] = Respond(r, 200)]
    /\ UNCHANGED <<subscribes, updateLog, sends, broadcasts, runs, now>>

(* generate_keys.js 236-259: the update of the fields and of updated_at    *)
(* returns; 200.                                                           *)
EmployeeUpdated(q, shift) ==
    LET r == requests[q] IN
    /\ r.kind = "updateEmployee" /\ r.pc = "awaitUpdate"
    /\ employees' = [employees EXCEPT
           ![r.empid].availability =
               IF r.body.availability = Undefined THEN @ ELSE r.body.availability,
           ![r.empid].updated_at = now + shift]
    /\ requests' = [requests EXCEPT ![q] = Respond(r, 200)]
    /\ UNCHANGED <<subscribes, updateLog, sends, broadcasts, runs, now>>

(* generate_keys.js 149-152 and 250: an update fails; 500. *)
EmployeeUpdateFailed(q) ==
    /\ requests[q].kind = "updateEmployee"
    /\ requests[q].pc \in {"awaitStars", "awaitUpdate"}
    /\ requests' = [requests EXCEPT ![q] = Respond([@ EXCEPT !.fault = "update"], 500)]
    /\ UNCHANGED <<employees, subscribes, updateLog, sends, broadcasts, runs, now>>

(* generate_keys.js 268-280: updateEmployeeStars; 400 without stars, else  *)
(* update({ stars }) is issued.                                            *)
UpdateEmployeeStars(empid, stars) ==
    /\ Cardinality(Profiling) < MaxUpdates
    /\ requests' = Append(requests,
           LET r == [NewRequest("updateEmployeeStars", empid, TRUE)
                         EXCEPT !.body.stars = stars, !.pc = "awaitStars"]
           IN IF stars = Undefined THEN Respond(r, 400) ELSE r)
    /\ UNCHANGED <<employees, subscribes, updateLog, sends, broadcasts, runs, now>>

(* generate_keys.js 276-284: the update returns; 200, also when no row had *)
(* the empid.                                                              *)
StarsUpdated(q) ==
    LET r == requests[q] IN
    /\ r.kind = "updateEmployeeStars" /\ r.pc = "awaitStars"
    /\ employees' = IF r.empid \in Employees
                    THEN [employees EXCEPT ![r.empid].stars = r.body.stars]
                    ELSE employees
    /\ requests' = [requests EXCEPT ![q] = Respond(r, 200)]
    /\ UNCHANGED <<subscribes, updateLog, sends, broadcasts, runs, now>>

(* generate_keys.js 282 and 285-288: the update fails; 500. *)
StarsUpdateFailed(q) ==
    /\ requests[q].kind = "updateEmployeeStars" /\ requests[q].pc = "awaitStars"
    /\ requests' = [requests EXCEPT ![q] = Respond([@ EXCEPT !.fault = "update"], 500)]
    /\ UNCHANGED <<employees, subscribes, updateLog, sends, broadcasts, runs, now>>

(***************************************************************************)
(* Specification of the subscription registry: concurrent subscribe        *)
(* requests and a notification sent by a request handler.                  *)
(***************************************************************************)
Row(role, login, updated, stored) ==
    [role_type |-> role, last_login |-> login, updated_at |-> updated,
     push_subscriptions |-> stored, stars |-> "0", availability |-> "Available"]

InitStored == {NullValue, ArrayValue(<<>>), ArrayValue(<<[endpoint |-> "b", keys |-> 1]>>)}

(* The request bodies: every empid (known, unknown, missing) with every    *)
(* subscription (two endpoints, two key sets, missing).                    *)
SubscribeBodies ==
    [empid : EmpIds \cup {NoEmpid}, subscription : Subs \cup {NoSubscription}]

Init ==
    /\ employees \in { [e \in Employees |-> Row("IC", 0, 0, f[e])] :
                          f \in [Employees -> InitStored] }
    /\ subscribes = [c \in SubCalls |-> IdleSubscribe]
    /\ updateLog = <<>>
    /\ sends = <<>>
    /\ broadcasts = <<>>
    /\ runs = <<>>
    /\ requests = <<>>
    /\ now = InactivityDays + 1

Next ==
    \/ \E c \in SubCalls, b \in SubscribeBodies : Subscribe(c, b.empid, b.subscription)
    \/ \E c \in SubCalls : SubscribeFetched(c)
    \/ \E c \in SubCalls : SubscribeUpdated(c)

Spec == Init /\ [][Next]_vars

(***************************************************************************)
(* Specification of registration followed by delivery: subscribe requests  *)
(* for one employee racing with each other and with the notifications a    *)
(* request handler sends to that employee.                                 *)
(***************************************************************************)
CausalBodies == { b \in SubscribeBodies : b.empid = "e1" /\ b.subscription # NoSubscription }

NextCausal ==
    \/ \E c \in SubCalls, b \in CausalBodies : Subscribe(c, b.empid, b.subscription)
    \/ \E c \in SubCalls : SubscribeFetched(c)
    \/ \E c \in SubCalls : SubscribeUpdated(c)
    \/ DirectSend("e1", LoginPayload)
    \/ \E d \in SendIds : SendFetched(d)
    \/ \E d \in SendIds : \E i \in 1..Len(sends[d].pushed) : SendSettled(d, i, "delivered")
    \/ \E d \in SendIds : SendCompleted(d)

InitCausal ==
    /\ Init
    /\ employees["e2"].push_subscriptions = NullValue

SpecCausal == InitCausal /\ [][NextCausal]_vars

(***************************************************************************)
(* Specification of dispatch: one population of employees with their       *)
(* roles and stored subscriptions, and the dispatch calls request handlers *)
(* make (loginUser and updatePassword send to one employee, createProject  *)
(* broadcasts).                                                            *)
(***************************************************************************)
Roles == {"Manager", "IC"}
RoleArgs == {"Manager", "IC", "", Undefined}
(* Payloads with icon and image left out, empty and given. *)
Payloads ==
    { LoginPayload,
      [title |-> "New Activity Available", url |-> "/inline-activities",
       icon |-> "", image |-> TakingOff],
      [title |-> "Password Changed", url |-> "/profile",
       icon |-> TakingOff, image |-> Undefined],
      ReminderPayload }

InitDispatch ==
    /\ employees \in
         { [e \in Employees |->
               Row(role[e], 0, 0,
                   IF e = "e1"
                   THEN ArrayValue(<<[endpoint |-> "a", keys |-> 1], [endpoint |-> "b", keys |-> 1]>>)
                   ELSE ArrayValue(<<[endpoint |-> "a", keys |-> 2]>>))] :
             role \in [Employees -> Roles] }
    /\ subscribes = [c \in SubCalls |-> IdleSubscribe]
    /\ updateLog = <<>>
    /\ sends = <<>>
    /\ broadcasts = <<>>
    /\ runs = <<>>
    /\ requests = <<>>
    /\ now = InactivityDays + 1

NextDispatch ==
    \/ \E e \in {"e1", UnknownId}, p \in Payloads : DirectSend(e, p)
    \/ \E d \in SendIds : SendFetched(d)
    \/ \E d \in SendIds, o \in {"delivered", "transient"} :
           \E i \in 1..Len(sends[d].pushed) : SendSettled(d, i, o)
    \/ \E d \in SendIds : SendCompleted(d)
    \/ \E r \in RoleArgs, p \in Payloads : Broadcast(r, p)
    \/ \E b \in BroadcastIds : BroadcastFetched(b)
    \/ \E b \in BroadcastIds, o \in {"delivered", "transient"} :
           \E i \in 1..Len(broadcasts[b].pushed) : BroadcastSettled(b, i, o)
    \/ \E b \in BroadcastIds : BroadcastCompleted(b)

SpecDispatch == InitDispatch /\ [][NextDispatch]_vars

(***************************************************************************)
(* Specification of the fan-out of one sendNotificationToUser call: lists  *)
(* of up to three subscriptions, every outcome of every send.              *)
(***************************************************************************)
ThreeSubs ==
    <<[endpoint |-> "a", keys |-> 1], [endpoint |-> "b", keys |-> 1],
      [endpoint |-> "c", keys |-> 1]>>

InitFanout ==
    /\ employees \in
         { [e \in Employees |-> Row("IC", 0, 0, IF e = "e1" THEN v ELSE NullValue)] :
             v \in {NullValue, ArrayValue(<<>>), ArrayValue(SubSeq(ThreeSubs, 1, 1)),
                    ArrayValue(SubSeq(ThreeSubs, 1, 2)), ArrayValue(ThreeSubs)} }
    /\ subscribes = [c \in SubCalls |-> IdleSubscribe]
    /\ updateLog = <<>>
    /\ sends = <<>>
    /\ broadcasts = <<>>
    /\ runs = <<>>
    /\ requests = <<>>
    /\ now = InactivityDays + 1

NextFanout ==
    \/ \E e \in EmpIds : DirectSend(e, LoginPayload)
    \/ \E d \in SendIds : SendFetched(d)
    \/ \E d \in SendIds, o \in Outcomes :
           \E i \in 1..Len(sends[d].pushed) : SendSettled(d, i, o)
    \/ \E d \in SendIds : SendCompleted(d)

SpecFanout == InitFanout /\ [][NextFanout]_vars

(***************************************************************************)
(* Specification of a broadcast over stored values of every shape: one     *)
(* employee holds a list of two subscriptions, the other any shape, and    *)
(* every send settles in every way.                                        *)
(***************************************************************************)
TwoSubs == <<[endpoint |-> "a", keys |-> 1], [endpoint |-> "b", keys |-> 1]>>
OneSub == <<[endpoint |-> "c", keys |-> 1]>>

Shapes ==
    { NullValue, ArrayValue(OneSub),
      [kind |-> "object", items |-> <<>>], [kind |-> "emptyText", items |-> <<>>],
      [kind |-> "badText", items |-> <<>>], [kind |-> "arrayText", items |-> OneSub],
      [kind |-> "otherText", items |-> <<>>] }

InitIsolation ==
    /\ employees \in
         { [e \in Employees |-> Row("IC", 0, 0, IF e = good THEN ArrayValue(TwoSubs) ELSE v)] :
             good \in Employees, v \in Shapes }
    /\ subscribes = [c \in SubCalls |-> IdleSubscribe]
    /\ updateLog = <<>>
    /\ sends = <<>>
    /\ broadcasts = <<>>
    /\ runs = <<>>
    /\ requests = <<>>
    /\ now = InactivityDays + 1

NextIsolation ==
    \/ \E r \in {"IC", Undefined} : Broadcast(r, ReminderPayload)
    \/ \E b \in BroadcastIds : BroadcastFetched(b)
    \/ \E b \in BroadcastIds : BroadcastFetchFailed(b)
    \/ \E b \in BroadcastIds, o \in Outcomes :
           \E i \in 1..Len(broadcasts[b].pushed) : BroadcastSettled(b, i, o)
    \/ \E b \in BroadcastIds : BroadcastCompleted(b)

SpecIsolation == InitIsolation /\ [][NextIsolation]_vars

(***************************************************************************)
(* Specification of the lookup of one sendNotificationToUser call: a       *)
(* known, unknown or missing empid, a stored value of every shape, and a   *)
(* select that returns or fails.                                           *)
(***************************************************************************)
InitLookup ==
    /\ employees \in
         { [e \in Employees |-> Row("IC", 0, 0, IF e = "e1" THEN v ELSE ArrayValue(TwoSubs))] :
             v \in Shapes \cup {ArrayValue(<<>>)} }
    /\ subscribes = [c \in SubCalls |-> IdleSubscribe]
    /\ updateLog = <<>>
    /\ sends = <<>>
    /\ broadcasts = <<>>
    /\ runs = <<>>
    /\ requests = <<>>
    /\ now = InactivityDays + 1

NextLookup ==
    \/ \E e \in EmpIds \cup {NoEmpid}, p \in {LoginPayload, ReminderPayload} : DirectSend(e, p)
    \/ \E d \in SendIds : SendFetched(d)
    \/ \E d \in SendIds : SendLookupFailed(d)
    \/ \E d \in SendIds, o \in Outcomes :
           \E i \in 1..Len(sends[d].pushed) : SendSettled(d, i, o)
    \/ \E d \in SendIds : SendCompleted(d)

SpecLookup == InitLookup /\ [][NextLookup]_vars

(***************************************************************************)
(* Specification of the dispatching handlers: login, password change and   *)
(* project creation requests, with every outcome of the dispatch each      *)
(* makes (a failed lookup, sends that are delivered, rejected or left      *)
(* pending).                                                               *)
(***************************************************************************)
InitHandlers ==
    /\ employees = [e \in Employees |->
                       Row("IC", 0, 0, IF e = "e1" THEN ArrayValue(TwoSubs) ELSE NullValue)]
    /\ subscribes = [c \in SubCalls |-> IdleSubscribe]
    /\ updateLog = <<>>
    /\ sends = <<>>
    /\ broadcasts = <<>>
    /\ runs = <<>>
    /\ requests = <<>>
    /\ now = InactivityDays + 1

NextHandlers ==
    \/ \E e \in EmpIds \cup {NoEmpid}, ok \in BOOLEAN : LoginUser(e, ok)
    \/ \E q \in RequestIds : LoginFetched(q)
    \/ \E q \in RequestIds : LoginFetchFailed(q)
    \/ \E q \in RequestIds : LoginUpdated(q)
    \/ \E e \in EmpIds \cup {NoEmpid}, ok \in BOOLEAN : UpdatePassword(e, ok)
    \/ \E q \in RequestIds : PasswordFetched(q)
    \/ \E q \in RequestIds : PasswordFetchFailed(q)
    \/ \E q \in RequestIds : PasswordUpdated(q)
    \/ \E q \in RequestIds : PasswordUpdateFailed(q)
    \/ CreateProject
    \/ \E q \in RequestIds : ProjectInserted(q)
    \/ \E q \in RequestIds : ProjectInsertFailed(q)
    \/ \E d \in SendIds : SendFetched(d)
    \/ \E d \in SendIds : SendLookupFailed(d)
    \/ \E d \in SendIds, o \in Outcomes :
           \E i \in 1..Len(sends[d].pushed) : SendSettled(d, i, o)
    \/ \E d \in SendIds : SendCompleted(d)
    \/ \E b \in BroadcastIds : BroadcastFetched(b)
    \/ \E b \in BroadcastIds : BroadcastFetchFailed(b)
    \/ \E b \in BroadcastIds, o \in Outcomes :
           \E i \in 1..Len(broadcasts[b].pushed) : BroadcastSettled(b, i, o)
    \/ \E b \in BroadcastIds : BroadcastCompleted(b)

SpecHandlers == InitHandlers /\ [][NextHandlers]_vars

(***************************************************************************)
(* Specification of subscribe over stored values that are no list: null,   *)
(* empty text, text that does not parse, text that parses to a value that  *)
(* is no array, and a JSONB object.                                        *)
(***************************************************************************)
Malformed == { v \in Shapes : v.kind \notin {"array", "arrayText"} }

InitMalformed ==
    /\ employees \in { [e \in Employees |-> Row("IC", 0, 0, f[e])] :
                          f \in [Employees -> Malformed] }
    /\ subscribes = [c \in SubCalls |-> IdleSubscribe]
    /\ updateLog = <<>>
    /\ sends = <<>>
    /\ broadcasts = <<>>
    /\ runs = <<>>
    /\ requests = <<>>
    /\ now = InactivityDays + 1

SpecMalformed == InitMalformed /\ [][Next]_vars

(***************************************************************************)
(* Specification of the profile handlers: an employee whose timestamps are *)
(* older than the cutoff, profile requests with and without stars, and the *)
(* clock.                                                                  *)
(***************************************************************************)
InitProfile ==
    /\ employees \in
         { [e \in Employees |-> Row("IC", NullTime, updated, ArrayValue(OneSub))] :
             updated \in {NullTime, 0} }
    /\ subscribes = [c \in SubCalls |-> IdleSubscribe]
    /\ updateLog = <<>>
    /\ sends = <<>>
    /\ broadcasts = <<>>
    /\ runs = <<>>
    /\ requests = <<>>
    /\ now = InactivityDays + 1

NextProfile ==
    \/ \E e \in {"e1", UnknownId}, b \in ProfileBodies : UpdateEmployee(e, b)
    \/ \E q \in RequestIds : EmployeeFetched(q)
    \/ \E q \in RequestIds : EmployeeFetchFailed(q)
    \/ \E q \in RequestIds : StarsUpdatedDirectly(q)
    \/ \E q \in RequestIds, shift \in IstShift : EmployeeUpdated(q, shift)
    \/ \E q \in RequestIds : EmployeeUpdateFailed(q)
    \/ \E e \in {"e1", UnknownId}, st \in {Undefined, "4"} : UpdateEmployeeStars(e, st)
    \/ \E q \in RequestIds : StarsUpdated(q)
    \/ \E q \in RequestIds : StarsUpdateFailed(q)
    \/ Tick

SpecProfile == InitProfile /\ [][NextProfile]_vars

(***************************************************************************)
(* Specification of repeated dispatch to one employee: the reminders of    *)
(* successive runs and the dispatches of request handlers, each made after *)
(* the earlier ones returned, with sends that are delivered or rejected as *)
(* expired.                                                                *)
(***************************************************************************)
InitExpiry ==
    /\ employees = [e \in Employees |->
                       IF e = "e1" THEN Row("IC", NullTime, NullTime, ArrayValue(TwoSubs))
                       ELSE Row("Manager", NullTime, NullTime, NullValue)]
    /\ subscribes = [c \in SubCalls |-> IdleSubscribe]
    /\ updateLog = <<>>
    /\ sends = <<>>
    /\ broadcasts = <<>>
    /\ runs = <<>>
    /\ requests = <<>>
    /\ now = InactivityDays + 1

(* Every dispatch made so far has returned. *)
AllReturned ==
    /\ \A r \in RunIds : runs[r].pc # "awaitFetch"
    /\ \A d \in SendIds : sends[d].pc \in {"done", "failed"}
    /\ \A b \in BroadcastIds : broadcasts[b].pc \in {"done", "failed"}

NextExpiry ==
    \/ AllReturned /\ Fire
    \/ \E r \in RunIds : SchedulerFetched(r)
    \/ AllReturned /\ DirectSend("e1", LoginPayload)
    \/ \E d \in SendIds : SendFetched(d)
    \/ \E d \in SendIds, o \in {"delivered", "expired"} :
           \E i \in 1..Len(sends[d].pushed) : SendSettled(d, i, o)
    \/ \E d \in SendIds : SendCompleted(d)
    \/ AllReturned /\ Broadcast("IC", ActivityPayload)
    \/ \E b \in BroadcastIds : BroadcastFetched(b)
    \/ \E b \in BroadcastIds, o \in {"delivered", "expired"} :
           \E i \in 1..Len(broadcasts[b].pushed) : BroadcastSettled(b, i, o)
    \/ \E b \in BroadcastIds : BroadcastCompleted(b)

SpecExpiry == InitExpiry /\ [][NextExpiry]_vars

(***************************************************************************)
(* Specification of the scheduler: employees with every combination of     *)
(* role and timestamps around the cutoff, the timer firing on successive   *)
(* days, and the reminders the runs send.                                  *)
(***************************************************************************)
Stamps == {NullTime} \cup 0..MaxStamp
SecondEmployee ==
    { Row("Manager", NullTime, NullTime, NullValue),
      Row("IC", NullTime, NullTime, NullValue),
      Row("IC", 0, MaxStamp, NullValue) }

InitSched ==
    /\ employees \in
         { [e \in Employees |->
               IF e = "e1"
               THEN Row(role, login, updated, ArrayValue(<<[endpoint |-> "a", keys |-> 1]>>))
               ELSE second] :
             role \in Roles, login \in Stamps, updated \in Stamps,
             second \in SecondEmployee }
    /\ subscribes = [c \in SubCalls |-> IdleSubscribe]
    /\ updateLog = <<>>
    /\ sends = <<>>
    /\ broadcasts = <<>>
    /\ runs = <<>>
    /\ requests = <<>>
    /\ now = InactivityDays + 1

NextSched ==
    \/ Fire
    \/ \E r \in RunIds : SchedulerFetched(r)
    \/ \E r \in RunIds : SchedulerFetchFailed(r)
    \/ Tick
    \/ \E d \in SendIds : SendFetched(d)
    \/ \E d \in SendIds : \E i \in 1..Len(sends[d].pushed) : SendSettled(d, i, "delivered")
    \/ \E d \in SendIds : SendCompleted(d)

SpecSched == InitSched /\ [][NextSched]_vars

(***************************************************************************)
(* Properties of the subscription registry                                 *)
(***************************************************************************)
Stored(e) == employees[e].push_subscriptions
Pos(c) == CHOOSE i \in 1..Len(updateLog) : updateLog[i] = c
Wrote(c) == \E i \in 1..Len(updateLog) : updateLog[i] = c
LastWriter(e, c) ==
    /\ Wrote(c)
    /\ \A i \in 1..Len(updateLog) :
           i > Pos(c) => subscribes[updateLog[i]].empid # e
Success(c) == subscribes[c].pc = "done" /\ subscribes[c].status = 201

(* C1: whatever subscribe requests ran and however they interleaved, no     *)
(* employee's stored push_subscriptions list holds two subscriptions with  *)
(* the same endpoint.                                                      *)
C1_UniqueEndpoints ==
    \A e \in Employees : DistinctEndpoints(Stored(e).items)

(* Two requests with the same endpoint for the same employee both wrote. *)
C1_Witness ==
    \E c1, c2 \in SubCalls :
        /\ c1 # c2 /\ Wrote(c1) /\ Wrote(c2)
        /\ subscribes[c1].empid = subscribes[c2].empid
        /\ subscribes[c1].subscription.endpoint = subscribes[c2].subscription.endpoint

(* c1 and c2 are for the same employee with different endpoints, each read  *)
(* the list before the other wrote, both wrote, and c2 wrote last.         *)
Overlapped(c1, c2) ==
    /\ c1 # c2 /\ Wrote(c1) /\ Wrote(c2)
    /\ subscribes[c1].empid = subscribes[c2].empid
    /\ subscribes[c1].subscription.endpoint # subscribes[c2].subscription.endpoint
    /\ subscribes[c1].seenUpdates < Pos(c2)
    /\ subscribes[c2].seenUpdates < Pos(c1)
    /\ Pos(c1) < Pos(c2)
    /\ subscribes[c1].subscription.endpoint \notin Endpoints(subscribes[c2].subscriptions)

(* C2: when two overlapping subscribe requests for one employee add        *)
(* different endpoints, both are answered 201 and, as long as the later of *)
(* the two writes is the last write to the employee, the stored list is    *)
(* the later writer's list: it holds the later subscription and none with  *)
(* the earlier one's endpoint.                                             *)
C2_LastWriteWins ==
    \A c1, c2 \in SubCalls :
        (Overlapped(c1, c2) /\ LastWriter(subscribes[c2].empid, c2)) =>
            /\ Success(c1) /\ Success(c2)
            /\ Stored(subscribes[c2].empid).items = subscribes[c2].subscriptions
            /\ subscribes[c2].subscription \in Range(Stored(subscribes[c2].empid).items)
            /\ subscribes[c1].subscription.endpoint
                   \notin Endpoints(Stored(subscribes[c2].empid).items)

C2_Witness ==
    \E c1, c2 \in SubCalls :
        /\ Overlapped(c1, c2) /\ LastWriter(subscribes[c2].empid, c2)
        /\ Success(c1) /\ Success(c2)
        /\ subscribes[c1].subscription \notin Range(Stored(subscribes[c1].empid).items)

(* c2 is the same request as c1, made after c1 was answered, and no other   *)
(* request for the employee was in flight when c1 was answered.            *)
Repeated(c1, c2) ==
    /\ c1 # c2
    /\ subscribes[c1].empid \in Employees
    /\ subscribes[c1].empid = subscribes[c2].empid
    /\ subscribes[c1].subscription = subscribes[c2].subscription
    /\ subscribes[c1].subscription # NoSubscription
    /\ c1 \in subscribes[c2].prior
    /\ subscribes[c1].quiet
    /\ subscribes[c2].pc = "done"

(* C4: subscribe(E, S) made twice in sequence for an existing employee      *)
(* leaves exactly one stored subscription with S's endpoint, the second    *)
(* request is answered 201 and the second request writes nothing.          *)
C4_Idempotent ==
    \A c1, c2 \in SubCalls :
        Repeated(c1, c2) =>
            /\ subscribes[c2].status = 201
            /\ ~Wrote(c2)
            /\ Cardinality({ i \in 1..Len(Stored(subscribes[c1].empid).items) :
                   Stored(subscribes[c1].empid).items[i].endpoint
                       = subscribes[c1].subscription.endpoint }) = 1

(* The first of the two requests stored S and the second was answered. *)
C4_Witness ==
    \E c1, c2 \in SubCalls : Repeated(c1, c2) /\ Wrote(c1)

(***************************************************************************)
(* Registration before delivery                                            *)
(***************************************************************************)
Fetched(d) == sends[d].pc \in {"awaitAll", "done"}
PushedEndpoints(d) ==
    { sends[d].pushed[i].subscription.endpoint : i \in 1..Len(sends[d].pushed) }

(* C3 as claimed: a sendNotificationToUser(E, P) call that starts after     *)
(* subscribe(E, S) was answered 201 sends to S's endpoint, in every        *)
(* interleaving.                                                           *)
C3_CausalDelivery ==
    \A d \in SendIds :
        Fetched(d) =>
            \A c \in sends[d].after :
                subscribes[c].empid = sends[d].empid =>
                    subscribes[c].subscription.endpoint \in PushedEndpoints(d)

(* C3 as amended: it does so when no other subscribe request for E was      *)
(* between its read and its write at the moment subscribe(E, S) was         *)
(* answered, and the payload sent is P with the defaults applied.          *)
C3_CausalDeliveryWhenQuiet ==
    \A d \in SendIds :
        Fetched(d) =>
            \A c \in sends[d].after :
                (subscribes[c].empid = sends[d].empid /\ subscribes[c].quiet) =>
                    \E i \in 1..Len(sends[d].pushed) :
                        /\ sends[d].pushed[i].subscription.endpoint
                               = subscribes[c].subscription.endpoint
                        /\ sends[d].pushed[i].body = Stringify(ApplyDefaults(LoginPayload))

(* A send started after a quiet registration that had written S, while      *)
(* another request for the employee had also written.                      *)
C3_Witness ==
    \E d \in SendIds : \E c \in sends[d].after :
        /\ Fetched(d) /\ subscribes[c].quiet /\ Wrote(c)
        /\ Len(updateLog) > 1
        /\ subscribes[c].subscription.endpoint \in PushedEndpoints(d)

(***************************************************************************)
(* Properties of broadcastNotification                                     *)
(***************************************************************************)
BroadcastFetchedRows(b) == broadcasts[b].pc \in {"awaitAll", "done"}
SentTo(b) == { broadcasts[b].pushed[i].empid : i \in 1..Len(broadcasts[b].pushed) }
WithSubscriptions == { e \in Employees : RowSubs(Stored(e)) # <<>> }

(* C5: a broadcast made with the Manager role as its argument sends to no   *)
(* subscription of an employee whose role_type is Manager.                 *)
C5_ManagersNeverTargeted ==
    \A b \in BroadcastIds :
        broadcasts[b].roleType = "Manager" =>
            \A e \in SentTo(b) : employees[e].role_type # "Manager"

(* A Manager with a stored subscription exists and the broadcast sent to    *)
(* somebody else.                                                          *)
C5_Witness ==
    \E b \in BroadcastIds :
        /\ broadcasts[b].roleType = "Manager"
        /\ SentTo(b) # {}
        /\ \E e \in WithSubscriptions : employees[e].role_type = "Manager"

(* C6 as claimed: for every role argument the employees sent to are exactly *)
(* those whose role_type differs from the argument.                        *)
C6_TargetsDifferFromArgument ==
    \A b \in BroadcastIds :
        BroadcastFetchedRows(b) =>
            SentTo(b) = { e \in WithSubscriptions :
                             employees[e].role_type # broadcasts[b].roleType }

(* C6 as amended: for every non-empty role argument, whatever its value,    *)
(* the employees sent to are exactly those whose role_type is not Manager; *)
(* for an empty or absent argument they are all the employees; and every   *)
(* stored subscription of such an employee is sent to exactly once.        *)
C6_TargetsNonManagers ==
    \A b \in BroadcastIds :
        BroadcastFetchedRows(b) =>
            LET target == IF broadcasts[b].roleType \in {"", Undefined}
                          THEN Employees
                          ELSE { e \in Employees : employees[e].role_type # "Manager" }
            IN /\ SentTo(b) = target \cap WithSubscriptions
               /\ \A e \in target : \A k \in 1..Len(Stored(e).items) :
                      Cardinality({ i \in 1..Len(broadcasts[b].pushed) :
                          /\ broadcasts[b].pushed[i].empid = e
                          /\ broadcasts[b].pushed[i].subscription = Stored(e).items[k] }) = 1

(* createProject's call: the argument is "IC" and an employee whose         *)
(* role_type is IC was sent to.                                            *)
C6_Witness ==
    \E b \in BroadcastIds :
        /\ broadcasts[b].roleType = "IC"
        /\ \E e \in SentTo(b) : employees[e].role_type = "IC"

(***************************************************************************)
(* Properties of the payload                                               *)
(***************************************************************************)
FieldOf(body, k) == { pair[2] : pair \in { q \in body : q[1] = k } }
Defaulted(given, body, k) ==
    /\ Cardinality(FieldOf(body, k)) = 1
    /\ \A v \in FieldOf(body, k) :
           /\ v \notin {"", Undefined}
           /\ v = (IF given[k] \in {"", Undefined} THEN "/Logo/MainLogo.png" ELSE given[k])

(* C9: every payload handed to the push transport by sendNotificationToUser *)
(* or broadcastNotification has a non-empty icon and a non-empty image,    *)
(* and a field the caller left out carries '/Logo/MainLogo.png'.           *)
C9_IconAndImage ==
    /\ \A d \in SendIds : \A i \in 1..Len(sends[d].pushed) :
           /\ Defaulted(sends[d].given, sends[d].pushed[i].body, "icon")
           /\ Defaulted(sends[d].given, sends[d].pushed[i].body, "image")
    /\ \A b \in BroadcastIds : \A i \in 1..Len(broadcasts[b].pushed) :
           /\ Defaulted(broadcasts[b].given, broadcasts[b].pushed[i].body, "icon")
           /\ Defaulted(broadcasts[b].given, broadcasts[b].pushed[i].body, "image")

(* A broadcast whose caller left out icon and image reached the transport. *)
C9_Witness ==
    \E b \in BroadcastIds :
        /\ broadcasts[b].given.icon = Undefined /\ broadcasts[b].given.image = Undefined
        /\ \E i \in 1..Len(broadcasts[b].pushed) :
               <<"icon", MainLogo>> \in broadcasts[b].pushed[i].body

(***************************************************************************)
(* Properties of the fan-out of sendNotificationToUser                     *)
(***************************************************************************)
(* C10: for an employee with stored list L, exactly one transport send is   *)
(* attempted for every element of L whichever sends fail, and the call     *)
(* ends by returning, never by raising.                                    *)
C10_OneSendEach ==
    \A d \in SendIds :
        /\ ~sends[d].raised
        /\ (Fetched(d) /\ sends[d].empid \in Employees) =>
              LET L == Stored(sends[d].empid).items IN
              /\ Len(sends[d].pushed) = Len(L)
              /\ \A k \in 1..Len(L) :
                     Cardinality({ i \in 1..Len(sends[d].pushed) :
                         sends[d].pushed[i].subscription = L[k] }) = 1

(* The call returned after one of three sends failed with a transient       *)
(* error, one with an expired endpoint and one was delivered.              *)
C10_Witness ==
    \E d \in SendIds :
        /\ sends[d].pc = "done" /\ Len(sends[d].pushed) = 3
        /\ sends[d].pushed[1].outcome = "transient"
        /\ sends[d].pushed[2].outcome = "delivered"
        /\ sends[d].pushed[3].outcome = "expired"

(***************************************************************************)
(* Properties of the scheduler                                             *)
(***************************************************************************)
RemindersOf(r, e) == { d \in SendIds : sends[d].by = r /\ sends[d].empid = e }
OrEpoch(t) == IF t = NullTime THEN 0 ELSE t

(* C7: a fetched employee is sent a reminder iff lastLogin < cutoff and     *)
(* lastUpdate < cutoff, strictly, with an absent last_login or updated_at  *)
(* taken as the epoch; so an employee with both absent qualifies.          *)
C7_InactivityPredicate ==
    \A r \in RunIds :
        runs[r].pc = "done" =>
            \A k \in 1..Len(runs[r].rows) :
                LET row == runs[r].rows[k] IN
                /\ (RemindersOf(r, row.empid) # {}) <=>
                       (/\ OrEpoch(row.last_login) < runs[r].cutoff
                        /\ OrEpoch(row.updated_at) < runs[r].cutoff)
                /\ (row.last_login = NullTime /\ row.updated_at = NullTime) =>
                       RemindersOf(r, row.empid) # {}

(* One run met an employee with both timestamps absent, who was reminded,   *)
(* and an employee whose last_login equals the cutoff and whose updated_at *)
(* is older, who was not.                                                  *)
C7_Witness ==
    \E r \in RunIds :
        /\ runs[r].pc = "done"
        /\ \E j, k \in 1..Len(runs[r].rows) :
               /\ runs[r].rows[j].last_login = NullTime
               /\ runs[r].rows[j].updated_at = NullTime
               /\ RemindersOf(r, runs[r].rows[j].empid) # {}
               /\ runs[r].rows[k].last_login = runs[r].cutoff
               /\ runs[r].rows[k].updated_at \in 0..(runs[r].cutoff - 1)
               /\ RemindersOf(r, runs[r].rows[k].empid) = {}

(* C8: a run whose fetch succeeded called sendNotificationToUser exactly    *)
(* once for every employee who is not a Manager and is inactive, and not   *)
(* at all for anybody else; a Manager is not among the rows evaluated.     *)
C8_OncePerInactiveNonManager ==
    \A r \in RunIds :
        runs[r].pc = "done" =>
            /\ \A e \in Employees :
                   Cardinality(RemindersOf(r, e)) =
                       (IF /\ employees[e].role_type # "Manager"
                           /\ OrEpoch(employees[e].last_login) < runs[r].cutoff
                           /\ OrEpoch(employees[e].updated_at) < runs[r].cutoff
                        THEN 1 ELSE 0)
            /\ \A k \in 1..Len(runs[r].rows) : runs[r].rows[k].role_type # "Manager"
            /\ \A d \in SendIds : sends[d].by = r => sends[d].empid \in Employees
            /\ runs[r].count = Cardinality({ d \in SendIds : sends[d].by = r })

(* A run reminded an inactive employee once while a Manager with stale      *)
(* timestamps was left out.                                                *)
C8_Witness ==
    \E r \in RunIds :
        /\ runs[r].pc = "done"
        /\ \E e \in Employees : Cardinality(RemindersOf(r, e)) = 1
        /\ \E m \in Employees :
               /\ employees[m].role_type = "Manager"
               /\ employees[m].last_login = NullTime
               /\ employees[m].updated_at = NullTime
               /\ RemindersOf(r, m) = {}

(* C11: in a broadcast, whatever the stored value of another employee is   *)
(* and however the sends to another employee's subscriptions settle, one   *)
(* send is attempted to every subscription of every fetched employee       *)
(* holding a list; the call raises nothing and, once every send has        *)
(* settled, can complete.                                                  *)
C11_FailureIsolation ==
    \A b \in BroadcastIds :
        /\ ~broadcasts[b].raised
        /\ broadcasts[b].pc \in {"awaitAll", "done"} =>
               \A k \in 1..Len(broadcasts[b].rows) :
                   LET e == broadcasts[b].rows[k]
                       L == RowSubs(Stored(e)) IN
                   \A j \in 1..Len(L) :
                       Cardinality({ i \in 1..Len(broadcasts[b].pushed) :
                                       /\ broadcasts[b].pushed[i].empid = e
                                       /\ broadcasts[b].pushed[i].subscription = L[j] }) = 1
        /\ ( /\ broadcasts[b].pc = "awaitAll"
             /\ \A i \in 1..Len(broadcasts[b].pushed) :
                    broadcasts[b].pushed[i].outcome # "pending" )
               => ENABLED BroadcastCompleted(b)

(* A broadcast completed over an employee whose stored text parses to a    *)
(* value that is no array and an employee with two subscriptions, of which *)
(* one send was rejected and the other delivered.                          *)
C11_Witness ==
    \E b \in BroadcastIds :
        /\ broadcasts[b].pc = "done"
        /\ Stored("e1").kind = "otherText"
        /\ "e1" \in Range(broadcasts[b].rows)
        /\ \E i, j \in 1..Len(broadcasts[b].pushed) :
               /\ broadcasts[b].pushed[i].empid = "e2"
               /\ broadcasts[b].pushed[j].empid = "e2"
               /\ broadcasts[b].pushed[i].outcome = "transient"
               /\ broadcasts[b].pushed[j].outcome = "delivered"

(* C12: a sendNotificationToUser call for an empid with no employee, for   *)
(* an employee with no stored subscriptions, or whose lookup failed, has   *)
(* attempted no send and raised nothing, at every point of the call; and   *)
(* no step of such a call changes the employees table.                     *)
NoRecipient(d) ==
    \/ sends[d].empid \notin Employees
    \/ sends[d].pc = "failed"
    \/ sends[d].pc = "done" /\ ~Truthy(Stored(sends[d].empid))

C12_SilentNoOp ==
    /\ [](\A d \in SendIds :
              NoRecipient(d) => /\ sends[d].pushed = <<>>
                                /\ sends[d].subscriptions = <<>>
                                /\ ~sends[d].raised)
    /\ [][\A d \in 1..Len(sends') :
              (NoRecipient(d)' /\ (d \notin SendIds \/ sends'[d] # sends[d]))
                  => employees' = employees]_vars

(* A call for an employee who holds two subscriptions returned after its   *)
(* lookup failed, with no send attempted.                                  *)
C12_Witness ==
    \E d \in SendIds :
        /\ sends[d].pc = "failed"
        /\ sends[d].empid = "e2"
        /\ Len(Stored("e2").items) = 2
        /\ sends[d].pushed = <<>>

(* The status the business of a request alone decides: the fields of the   *)
(* body, the stored credentials and the outcome of the handler's own       *)
(* database calls.                                                         *)
BusinessStatus(r) ==
    IF r.kind = "loginUser"
    THEN (IF r.empid = NoEmpid THEN 400
          ELSE IF r.fault = "fetch" THEN 500
          ELSE IF r.empid \notin Employees \/ ~r.ok THEN 401 ELSE 200)
    ELSE IF r.kind = "updatePassword"
    THEN (IF r.empid = NoEmpid THEN 400
          ELSE IF r.fault = "fetch" \/ r.empid \notin Employees THEN 404
          ELSE IF ~r.ok THEN 401
          ELSE IF r.fault = "update" THEN 500 ELSE 200)
    ELSE (IF r.fault = "insert" THEN 500 ELSE 201)

(* C13: the response of loginUser, updatePassword and createProject is the *)
(* one the business of the request decides, whatever state the dispatch it *)
(* made is in (lookup failed, sends rejected, sends still pending), and a  *)
(* handler that has made its dispatch can always go on to respond.         *)
C13_ResponseIgnoresDispatch ==
    \A q \in Dispatching :
        /\ requests[q].pc = "done" => requests[q].status = BusinessStatus(requests[q])
        /\ (requests[q].kind = "loginUser" /\ requests[q].pc = "awaitUpdate")
               => ENABLED LoginUpdated(q)
        /\ (requests[q].kind = "updatePassword" /\ requests[q].pc = "awaitUpdate")
               => ENABLED PasswordUpdated(q)
        /\ (requests[q].kind = "createProject" /\ requests[q].pc = "awaitInsert")
               => ENABLED ProjectInserted(q)

(* A login was answered 200 while a send of its dispatch had been rejected *)
(* and another was still pending.                                          *)
C13_Witness ==
    \E q \in Dispatching :
        /\ requests[q].kind = "loginUser"
        /\ requests[q].pc = "done" /\ requests[q].status = 200
        /\ sends[requests[q].dispatch].pc = "awaitAll"
        /\ \E i, j \in 1..Len(sends[requests[q].dispatch].pushed) :
               /\ sends[requests[q].dispatch].pushed[i].outcome = "transient"
               /\ sends[requests[q].dispatch].pushed[j].outcome = "pending"

(* C14: a run has logged its summary count only if every                   *)
(* sendNotificationToUser call the run made has returned, that is, all of  *)
(* its sends have settled.  The loop of scheduler.js does not await the    *)
(* calls, so the count is logged while they are still at their lookup.     *)
C14_LoggedAfterDispatches ==
    \A r \in RunIds :
        runs[r].logged =>
            \A d \in SendIds : sends[d].by = r => sends[d].pc \in {"done", "failed"}

(* C15: every run issues its select once; a run whose select failed has    *)
(* called sendNotificationToUser for nobody, has logged no count and has   *)
(* raised nothing out of the callback, and after it the timer can still    *)
(* start a fresh run.                                                      *)
C15_FetchFailureAbortsRun ==
    \A r \in RunIds :
        /\ runs[r].fetches = 1
        /\ runs[r].pc = "failed" =>
               /\ \A d \in SendIds : sends[d].by # r
               /\ runs[r].rows = <<>> /\ runs[r].count = 0
               /\ ~runs[r].logged /\ ~runs[r].raised
               /\ Len(runs) < MaxRuns => ENABLED Fire

(* A run failed at its select and a run fired on a later day reminded an   *)
(* employee.                                                               *)
C15_Witness ==
    \E r1, r2 \in RunIds :
        /\ r1 < r2
        /\ runs[r1].pc = "failed"
        /\ runs[r2].pc = "done" /\ runs[r2].cutoff > runs[r1].cutoff
        /\ \E d \in SendIds : sends[d].by = r2

(* C20: while a run awaits its select the timer can start another run,     *)
(* and any two runs that fetched their rows have each called               *)
(* sendNotificationToUser once for every employee whose row passed the     *)
(* test in both.                                                           *)
Qualifies(r, e) ==
    \E k \in 1..Len(runs[r].rows) :
        /\ runs[r].rows[k].empid = e
        /\ IsInactive(runs[r].rows[k], runs[r].cutoff)

C20_OverlappingRuns ==
    /\ ( /\ \E r \in RunIds : runs[r].pc = "awaitFetch"
         /\ Len(runs) < MaxRuns ) => ENABLED Fire
    /\ \A r1, r2 \in RunIds :
           (r1 # r2 /\ runs[r1].pc = "done" /\ runs[r2].pc = "done") =>
               \A e \in Employees :
                   (Qualifies(r1, e) /\ Qualifies(r2, e)) =>
                       /\ Cardinality(RemindersOf(r1, e)) = 1
                       /\ Cardinality(RemindersOf(r2, e)) = 1

(* The timer fired on the next day while the first run was still awaiting  *)
(* its select: the second run's rows came back first, so its reminder to   *)
(* an employee was called before the first run's reminder to the same      *)
(* employee.                                                               *)
C20_Witness ==
    \E r1, r2 \in RunIds :
        /\ r1 < r2
        /\ runs[r2].cutoff > runs[r1].cutoff
        /\ runs[r1].pc = "done" /\ runs[r2].pc = "done"
        /\ \E d1, d2 \in SendIds :
               /\ d2 < d1
               /\ sends[d1].by = r1 /\ sends[d2].by = r2
               /\ sends[d1].empid = sends[d2].empid

(* C16: a subscribe request that names no employee of the table is        *)
(* answered with a failure (500), never reaches its update, and has written *)
(* nothing.                                                                *)
C16_UnknownEmployeeFails ==
    \A c \in SubCalls :
        (subscribes[c].pc # "idle" /\ subscribes[c].empid \notin Employees
            /\ subscribes[c].empid # NoEmpid
            /\ subscribes[c].subscription # NoSubscription) =>
            /\ subscribes[c].pc # "awaitUpdate"
            /\ ~Wrote(c)
            /\ subscribes[c].pc = "done" => subscribes[c].status = 500

(* A request for an unknown empid was answered 500 and no update has       *)
(* reached the table, which holds a subscription.                          *)
C16_Witness ==
    \E c \in SubCalls :
        /\ subscribes[c].pc = "done"
        /\ subscribes[c].empid = UnknownId
        /\ subscribes[c].subscription \in Subs
        /\ subscribes[c].status = 500
        /\ updateLog = <<>>
        /\ \E e \in Employees : Len(Stored(e).items) = 1

(* C17: a subscribe request for an employee whose stored value is no list, *)
(* whose select returned before any update, is answered 201, and when it   *)
(* is the only request that has written, the stored value is the list of   *)
(* its one subscription.  Text that parses to a value that is no array     *)
(* makes `subscriptions.some` throw: the answer is 500 and nothing is      *)
(* stored.                                                                 *)
C17_MalformedTreatedAsEmpty ==
    \A c \in SubCalls :
        (subscribes[c].pc = "done" /\ subscribes[c].empid \in Employees
            /\ subscribes[c].subscription # NoSubscription
            /\ subscribes[c].seenUpdates = 0) =>
            /\ subscribes[c].status = 201
            /\ updateLog = <<c>> =>
                   Stored(subscribes[c].empid) = ArrayValue(<<subscribes[c].subscription>>)

(* C18: after an updateEmployee or updateEmployeeStars request for an      *)
(* employee was answered 200, the employee's updated_at is not older than  *)
(* the request, so while the request lies inside the window the row does   *)
(* not pass the scheduler's test lastUpdate < cutoff.  The two paths that  *)
(* write stars write nothing else, and updated_at stays what it was.       *)
C18_MutationRefreshesUpdatedAt ==
    \A q \in Profiling :
        (requests[q].pc = "done" /\ requests[q].status = 200
            /\ requests[q].empid \in Employees) =>
            /\ employees[requests[q].empid].updated_at >= requests[q].at
            /\ requests[q].at >= now - InactivityDays =>
                   ~(OrEpoch(employees[requests[q].empid].updated_at) < now - InactivityDays)

(* C19: no step of a sendNotificationToUser or broadcastNotification call  *)
(* changes the employees table; a subscription found expired before a      *)
(* dispatch was made is still in the employee's stored list, and the       *)
(* dispatch, once its rows are fetched, sends to it again.                 *)
SentAgain(e, subscription) ==
    /\ subscription \in Range(Stored(e).items)
    /\ \A d \in SendIds :
           (Fetched(d) /\ sends[d].empid = e /\ subscription \in sends[d].expired) =>
               \E i \in 1..Len(sends[d].pushed) : sends[d].pushed[i].subscription = subscription
    /\ \A b \in BroadcastIds :
           ( /\ broadcasts[b].pc \in {"awaitAll", "done"}
             /\ e \in Range(broadcasts[b].rows)
             /\ [empid |-> e, subscription |-> subscription] \in broadcasts[b].expired ) =>
               \E i \in 1..Len(broadcasts[b].pushed) :
                   /\ broadcasts[b].pushed[i].empid = e
                   /\ broadcasts[b].pushed[i].subscription = subscription

C19_DispatchLeavesStore ==
    /\ [][(sends' # sends \/ broadcasts' # broadcasts) => employees' = employees]_vars
    /\ [](\A x \in ExpiredSoFar : SentAgain(x.empid, x.subscription))

(* A send to a subscription was rejected as expired; a                     *)
(* sendNotificationToUser call and a broadcast, both made after that, sent *)
(* to the same subscription again.                                         *)
C19_Witness ==
    \E d \in SendIds, b \in BroadcastIds :
        /\ sends[d].expired # {}
        /\ Fetched(d)
        /\ \E i \in 1..Len(sends[d].pushed) : sends[d].pushed[i].subscription \in sends[d].expired
        /\ broadcasts[b].expired # {}
        /\ \E i \in 1..Len(broadcasts[b].pushed) :
               [empid |-> broadcasts[b].pushed[i].empid,
                subscription |-> broadcasts[b].pushed[i].subscription] \in broadcasts[b].expired

====
